---- MODULE Spec2Model ----
(***************************************************************************)
(* A model of the SAT>IP satellite finder (misternerd/satip-satellite-     *)
(* finder): the RTP/RTCP receiver of rtp.py, the RTSP connection, stream   *)
(* and client of rtsp.py and the orchestration of main.py.                 *)
(*                                                                         *)
(* Specifications:                                                         *)
(*   SpecRtp        one RtpConnection of rtp.py: its receive thread,       *)
(*                  arriving datagrams, callback registration and callers  *)
(*                  of close(); SpecRtpFair adds the scheduler's fairness; *)
(*   SpecMain       main() of main.py driving RtspClient / RtspStream /    *)
(*                  RtspConnection of rtsp.py, the keep-alive threads and  *)
(*                  the signal handler;                                    *)
(*   SpecStream     the session of an RtspStream as its caller sees it;    *)
(*   SpecKeepAlive  the keep-alive thread of one RtspClient with its clock;*)
(*   SpecRtcp       one call of get_first_rtcp_app_packet_from_rtcp_data   *)
(*                  on a valid compound; SpecRtcpAny on any buffer, and    *)
(*                  SpecRtcpAnyFair with the loop kept running;            *)
(*   SpecChannel    one construction of a SatIpChannel;                    *)
(*   SpecSink       main()'s registration of the RTCP sinks;               *)
(*   SpecParse      the parsing of the Session header of a SETUP reply;    *)
(*   SpecRx         the RtpConnection of rtsp.py that play() creates;      *)
(*                  SpecRxFair adds the scheduler's fairness.              *)
(***************************************************************************)
EXTENDS Integers, Sequences, FiniteSets, TLC

\* ------------------------------------------------------------------ bounds
\* datagrams that arrive on the two UDP ports during one behaviour
MaxDatagrams == 2
\* datagrams buffered by one UDP socket
MaxQueue == 2
\* calls of RtpConnection.close()
MaxCloses == 2

VARIABLES
    \* ---- rtp.py RtpConnection ----
    stop_event,     \* _receiver_thread_stop_event.is_set()
    stop_pipe,      \* bytes written to _receiver_thread_stop_pipe[1], never read
    sock_open,      \* [socket -> BOOLEAN]: _rtp_socket / _rtcp_socket not yet closed
    sock_queue,     \* [socket -> Seq(datagram)]: datagrams the kernel holds
    callback,       \* [socket -> "None" | "cb"]: _rtp_callback / _rtcp_callback
    rpc,            \* position of _packet_receiver_handler
    read_sockets,   \* the list select() returned, not yet iterated
    packet,         \* <<socket, datagram>> handed to the callback
    cpc,            \* position of the caller inside close()
    closes,         \* calls of close() so far
    close_returned, \* some call of close() has returned
    close_raised,   \* some call of close() has raised
    arrived,        \* datagrams sent to the ports so far
    invoked,        \* [socket -> Nat]: invocations of the registered callback
    sink_log        \* how each invocation of a callback ended: "ok" | "raised"

rtpVars == <<stop_event, stop_pipe, sock_open, sock_queue, callback, rpc,
             read_sockets, packet, cpc, closes, close_returned, close_raised,
             arrived, invoked, sink_log>>

\* ---- main.py / rtsp.py ----
VARIABLES
    stack,          \* the main thread: main()'s frame, signal_handler frames above it
    rtsp_clients,   \* main.py list rtsp_clients (tuner of each RtspClient)
    rtsp_streams,   \* main.py list rtsp_streams (tuner of each RtspStream, None)
    rtp_connections,\* main.py list rtp_connections (tuner of each receiver, None)
    display,        \* "new" | "started" | "closed"
    lock,           \* [lock -> <<holder, tuner>>]: RtspConnection._lock
    curl_closed,    \* [handle -> BOOLEAN]: RtspConnection._curl.close() was called
    in_flight,      \* [tuner -> Nat]: threads inside the body of perform_rtsp_request
    running,        \* [tuner -> BOOLEAN]: RtspClient._running
    kpc,            \* [tuner -> position of thread_wrapper], "unset": no _options_thread
    recv,           \* [tuner -> "none" | "open" | "closed"]: the receiver play() bound
    play_result,    \* [tuner -> "-" | "ok" | "none" | "raised"]: how play() ended
    teardowns,      \* [tuner -> Nat]: calls of RtspStream.teardown()
    recv_closes,    \* [tuner -> Nat]: calls of the receiver's close()
    client_closes,  \* [tuner -> Nat]: calls of RtspClient.close()
    client_close_result, \* [tuner -> "-" | "returned" | "raised"]: the last of them
    conn_closes,    \* [tuner -> Nat]: calls of RtspConnection.close()
    display_closes, \* calls of display.close()
    signals,        \* signals delivered so far
    options_on_closed, \* an OPTIONS request was performed on a closed handle
    exit_code       \* "none" | "exit(1)" | "traceback"

mainVars == <<stack, rtsp_clients, rtsp_streams, rtp_connections, display, lock,
              curl_closed, in_flight, running, kpc, recv, play_result,
              teardowns, recv_closes, client_closes,
              client_close_result, conn_closes, display_closes, signals,
              options_on_closed, exit_code>>

\* ---- rtsp.py RtspStream, seen by one caller ----
VARIABLES
    session,        \* [tuner -> state of the RTSP session]
    teardown_raised \* the states among CLOSED, FAILED in which a teardown() raised

streamVars == <<session, teardown_raised>>

\* ---- rtsp.py keep-alive thread of one RtspClient, with its clock ----
VARIABLES
    ka_timeout,     \* the timeout setup_stream passed to _start_options_thread
    ka_running,     \* RtspClient._running
    ka_pc,          \* position of thread_wrapper
    ka_left,        \* seconds left of the running time.sleep
    ka_waited,      \* seconds the thread has waited since it was started or
                    \* since its last OPTIONS request
    ka_gaps         \* the waits that preceded the OPTIONS requests sent so far

kaVars == <<ka_timeout, ka_running, ka_pc, ka_left, ka_waited, ka_gaps>>

\* ---- rtcp.py get_first_rtcp_app_packet_from_rtcp_data, one call ----
VARIABLES
    rtcp_packets,   \* the RTCP packets the received datagram was made of
    rtcp_packet,    \* the argument packet: the bytes of the datagram
    rtcp_index,     \* the local index
    rtcp_pc,        \* "idle" | "while" | "returned" | "raised"
    rtcp_result     \* the value returned

rtcpVars == <<rtcp_packets, rtcp_packet, rtcp_index, rtcp_pc, rtcp_result>>

\* ---- satip.py SatIpChannel, one construction ----
VARIABLES
    channel,        \* the fields of the SatIpChannel
    channel_pc      \* "idle" | "post_init" | "constructed" | "raised"

channelVars == <<channel, channel_pc>>

\* ---- main.py: the RTCP sinks main() registers, and the display ----
VARIABLES
    tuner_idx,      \* main()'s local tuner_idx, the cell every sink closes over
    sink_pc,        \* position of main(): "for" | "register" | "started"
    sinks,          \* the tuners whose receiver has its sink registered
    display_values  \* [tuner index -> what the display shows for it]

sinkVars == <<tuner_idx, sink_pc, sinks, display_values>>

\* ---- rtsp.py setup_stream: the Session header of a 200 answer ----
VARIABLES
    session_header, \* rtsp_response.headers['Session'], as its ';'-separated parts
    parse_pc,       \* "idle" | "split" | "int" | "returned" | "raised"
    session_id,     \* the local session_id
    session_timeout \* the local timeout, as passed to _start_options_thread

parseVars == <<session_header, parse_pc, session_id, session_timeout>>

\* ---- rtsp.py RtpConnection, the receiver play() creates ----
VARIABLES
    received_thread_running, \* _received_thread_running as the instance reads it
    rx_init,        \* position of __init__: "start" | "set_running" | "done"
    rx_thread,      \* position of _packet_receiver_handler
    rx_queue,       \* [socket -> Nat]: datagrams the kernel holds
    rx_read,        \* the list select() returned, not yet iterated
    rx_arrived,     \* datagrams sent to the ports so far
    rx_close        \* position of the caller of close(): "idle" | "join" | "returned"

rxVars == <<received_thread_running, rx_init, rx_thread, rx_queue, rx_read,
            rx_arrived, rx_close>>

unitVars == <<kaVars, rtcpVars, channelVars, sinkVars, parseVars, rxVars>>

\* what an action of one unit leaves unchanged besides its own variables
kaOthers == <<rtpVars, mainVars, streamVars, rtcpVars, channelVars, sinkVars, parseVars, rxVars>>
rtcpOthers == <<rtpVars, mainVars, streamVars, kaVars, channelVars, sinkVars, parseVars, rxVars>>
channelOthers == <<rtpVars, mainVars, streamVars, kaVars, rtcpVars, sinkVars, parseVars, rxVars>>
sinkOthers == <<rtpVars, mainVars, streamVars, kaVars, rtcpVars, channelVars, parseVars, rxVars>>
parseOthers == <<rtpVars, mainVars, streamVars, kaVars, rtcpVars, channelVars, sinkVars, rxVars>>
rxOthers == <<rtpVars, mainVars, streamVars, kaVars, rtcpVars, channelVars, sinkVars, parseVars>>

vars == <<rtpVars, mainVars, streamVars, unitVars>>

\* ------------------------------------------------------------ rtp.py
Sockets == {"rtp", "rtcp"}

\* a datagram: one with payload, one whose sink raises on it, an empty one
Datagrams == {"data", "bad", "empty"}

\* socket_list of _packet_receiver_handler, in its order
socket_list == <<"rtp", "rtcp", "pipe">>

\* RtpConnection.__init__: event clear, pipe empty, callbacks None, both
\* sockets bound, the receive thread started
RtpInit ==
    /\ stop_event = FALSE
    /\ stop_pipe = 0
    /\ sock_open = [s \in Sockets |-> TRUE]
    /\ sock_queue = [s \in Sockets |-> <<>>]
    /\ callback = [s \in Sockets |-> "None"]
    /\ rpc = "while"
    /\ read_sockets = <<>>
    /\ packet = <<>>
    /\ cpc = "idle"
    /\ closes = 0
    /\ close_returned = FALSE
    /\ close_raised = FALSE
    /\ arrived = 0
    /\ invoked = [s \in Sockets |-> 0]
    /\ sink_log = <<>>

\* a datagram reaches a port: queued when the socket is open and has room,
\* dropped by the kernel otherwise
Arrive(s, d) ==
    /\ arrived < MaxDatagrams
    /\ arrived' = arrived + 1
    /\ sock_queue' = IF sock_open[s] /\ Len(sock_queue[s]) < MaxQueue
                     THEN [sock_queue EXCEPT ![s] = Append(@, d)]
                     ELSE sock_queue
    /\ UNCHANGED <<stop_event, stop_pipe, sock_open, callback, rpc, read_sockets,
                   packet, cpc, closes, close_returned, close_raised, invoked>>
    /\ UNCHANGED <<sink_log, mainVars, streamVars, unitVars>>

\* register_rtp_packet_received_callback / register_rtcp_packet_received_callback
register_callback(s) ==
    /\ callback[s] = "None"
    /\ callback' = [callback EXCEPT ![s] = "cb"]
    /\ UNCHANGED <<stop_event, stop_pipe, sock_open, sock_queue, rpc, read_sockets,
                   packet, cpc, closes, close_returned, close_raised, arrived, invoked>>
    /\ UNCHANGED <<sink_log, mainVars, streamVars, unitVars>>

\* while not self._receiver_thread_stop_event.is_set()
ThreadWhile ==
    /\ rpc = "while"
    /\ rpc' = IF stop_event THEN "exited" ELSE "select"
    /\ UNCHANGED <<stop_event, stop_pipe, sock_open, sock_queue, callback,
                   read_sockets, packet, cpc, closes, close_returned, close_raised,
                   arrived, invoked>>
    /\ UNCHANGED <<sink_log, mainVars, streamVars, unitVars>>

\* select.select is entered: a closed socket has fileno() -1, select raises
\* ValueError, the outer except logs it and breaks
ThreadSelectEnter ==
    /\ rpc = "select"
    /\ rpc' = IF \E s \in Sockets : ~sock_open[s] THEN "exited" ELSE "wait"
    /\ UNCHANGED <<stop_event, stop_pipe, sock_open, sock_queue, callback,
                   read_sockets, packet, cpc, closes, close_returned, close_raised,
                   arrived, invoked>>
    /\ UNCHANGED <<sink_log, mainVars, streamVars, unitVars>>

\* what select() reports readable
ReadableNoPipe(s) == s # "pipe" /\ sock_open[s] /\ sock_queue[s] # <<>>
Readable(s) ==
    IF s = "pipe" THEN stop_pipe > 0
    ELSE sock_open[s] /\ sock_queue[s] # <<>>

\* select.select returns the readable descriptors, in the order of socket_list
ThreadSelectReturn ==
    /\ rpc = "wait"
    /\ \E i \in 1..Len(socket_list) : Readable(socket_list[i])
    /\ read_sockets' = SelectSeq(socket_list, Readable)
    /\ rpc' = "for"
    /\ UNCHANGED <<stop_event, stop_pipe, sock_open, sock_queue, callback,
                   packet, cpc, closes, close_returned, close_raised, arrived, invoked>>
    /\ UNCHANGED <<sink_log, mainVars, streamVars, unitVars>>

\* one iteration of "for sock in read_sockets": recv, then the callback test
ThreadFor ==
    /\ rpc = "for"
    /\ IF read_sockets = <<>>
       THEN /\ rpc' = "while"
            /\ UNCHANGED <<read_sockets, sock_queue, packet>>
       ELSE LET s == Head(read_sockets) IN
            IF s = "pipe"
            THEN /\ read_sockets' = Tail(read_sockets)
                 /\ UNCHANGED <<rpc, sock_queue, packet>>
            ELSE IF ~sock_open[s]
            THEN \* sock.recv on a closed socket raises OSError: outer except, break
                 /\ rpc' = "exited"
                 /\ read_sockets' = <<>>
                 /\ UNCHANGED <<sock_queue, packet>>
            ELSE LET d == Head(sock_queue[s]) IN
                 /\ sock_queue' = [sock_queue EXCEPT ![s] = Tail(@)]
                 /\ read_sockets' = Tail(read_sockets)
                 /\ IF d # "empty" /\ callback[s] # "None"
                    THEN rpc' = "callback" /\ packet' = <<s, d>>
                    ELSE UNCHANGED <<rpc, packet>>
    /\ UNCHANGED <<stop_event, stop_pipe, sock_open, callback, cpc, closes,
                   close_returned, close_raised, arrived, invoked>>
    /\ UNCHANGED <<sink_log, mainVars, streamVars, unitVars>>

\* where the loop goes on after the callback ran; raised = the callback raised
\* (the inner try/except logs it and the for loop continues)
AfterCallbackBroken(raised) == IF raised THEN "exited" ELSE "for"
AfterCallback(raised) == "for"

\* self._rtp_callback(packet) / self._rtcp_callback(packet)
ThreadCallback ==
    /\ rpc = "callback"
    /\ invoked' = [invoked EXCEPT ![packet[1]] = @ + 1]
    /\ rpc' = AfterCallback(packet[2] = "bad")
    /\ sink_log' = Append(sink_log, IF packet[2] = "bad" THEN "raised" ELSE "ok")
    /\ packet' = <<>>
    /\ UNCHANGED <<stop_event, stop_pipe, sock_open, sock_queue, callback,
                   read_sockets, cpc, closes, close_returned, close_raised, arrived>>
    /\ UNCHANGED <<mainVars, streamVars, unitVars>>

\* close() is called; its log line calls getsockname() on both sockets, which
\* raises OSError on a closed socket
CloseCall ==
    /\ cpc = "idle"
    /\ closes < MaxCloses
    /\ closes' = closes + 1
    /\ IF \A s \in Sockets : sock_open[s]
       THEN cpc' = "set" /\ UNCHANGED close_raised
       ELSE close_raised' = TRUE /\ UNCHANGED cpc
    /\ UNCHANGED <<stop_event, stop_pipe, sock_open, sock_queue, callback, rpc,
                   read_sockets, packet, close_returned, arrived, invoked>>
    /\ UNCHANGED <<sink_log, mainVars, streamVars, unitVars>>

\* self._receiver_thread_stop_event.set()
CloseSetEvent ==
    /\ cpc = "set"
    /\ stop_event' = TRUE
    /\ cpc' = "write"
    /\ UNCHANGED <<stop_pipe, sock_open, sock_queue, callback, rpc, read_sockets,
                   packet, closes, close_returned, close_raised, arrived, invoked>>
    /\ UNCHANGED <<sink_log, mainVars, streamVars, unitVars>>

\* os.write(self._receiver_thread_stop_pipe[1], b'0')
CloseWritePipe ==
    /\ cpc = "write"
    /\ stop_pipe' = stop_pipe + 1
    /\ cpc' = "close_rtp"
    /\ UNCHANGED <<stop_event, sock_open, sock_queue, callback, rpc, read_sockets,
                   packet, closes, close_returned, close_raised, arrived, invoked>>
    /\ UNCHANGED <<sink_log, mainVars, streamVars, unitVars>>

\* self._rtp_socket.close() ; self._rtcp_socket.close()
CloseSocket(s) ==
    /\ cpc = "close_" \o s
    /\ sock_open' = [sock_open EXCEPT ![s] = FALSE]
    /\ sock_queue' = [sock_queue EXCEPT ![s] = <<>>]
    /\ cpc' = IF s = "rtp" THEN "close_rtcp" ELSE "join"
    /\ UNCHANGED <<stop_event, stop_pipe, callback, rpc, read_sockets, packet,
                   closes, close_returned, close_raised, arrived, invoked>>
    /\ UNCHANGED <<sink_log, mainVars, streamVars, unitVars>>

\* what self._receiver_thread.join() waits for
JoinedNoWait == TRUE
ThreadJoined == rpc = "exited"

\* self._receiver_thread.join() returns, and close() with it
CloseJoin ==
    /\ cpc = "join"
    /\ ThreadJoined
    /\ cpc' = "idle"
    /\ close_returned' = TRUE
    /\ UNCHANGED <<stop_event, stop_pipe, sock_open, sock_queue, callback, rpc,
                   read_sockets, packet, closes, close_raised, arrived, invoked>>
    /\ UNCHANGED <<sink_log, mainVars, streamVars, unitVars>>

\* ------------------------------------------------------------ rtsp.py / main.py
\* len(arg_channels): the tuners main() starts, one --tune each
NumTuners == 2
\* termination signals (SIGINT, SIGTERM) delivered during one behaviour
MaxSignals == 2

Tuners == 1..NumTuners

\* Python's None as an entry of rtsp_streams / rtp_connections
None == 0

\* RtspConnection._curl and RtspConnection._lock are assigned in the class
\* body, not in __init__: every instance uses the one class-level object
Handles == {"RtspConnection._curl"}
Locks == {"RtspConnection._lock"}
curl_of(c) == "RtspConnection._curl"
lock_of(c) == "RtspConnection._lock"

\* what the server (or the transport) does with one request
Outcomes == {"200", "non200", "raise"}
\* for OPTIONS a status other than 200 is only printed: one case with 200
OptionsOutcomes == {"200", "raise"}

\* main(): the state when the startup loop is entered (display constructed,
\* the three lists empty, handlers installed), no client constructed yet
MainInit ==
    /\ stack = << [ctx |-> "main", pc |-> "new_client", idx |-> 1, k |-> 1] >>
    /\ rtsp_clients = <<>>
    /\ rtsp_streams = <<>>
    /\ rtp_connections = <<>>
    /\ display = "new"
    /\ lock = [l \in Locks |-> <<"free", 0>>]
    /\ curl_closed = [h \in Handles |-> FALSE]
    /\ in_flight = [t \in Tuners |-> 0]
    /\ running = [t \in Tuners |-> TRUE]
    /\ kpc = [t \in Tuners |-> "unset"]
    /\ recv = [t \in Tuners |-> "none"]
    /\ play_result = [t \in Tuners |-> "-"]
    /\ teardowns = [t \in Tuners |-> 0]
    /\ recv_closes = [t \in Tuners |-> 0]
    /\ client_closes = [t \in Tuners |-> 0]
    /\ client_close_result = [t \in Tuners |-> "-"]
    /\ conn_closes = [t \in Tuners |-> 0]
    /\ display_closes = 0
    /\ signals = 0
    /\ options_on_closed = FALSE
    /\ exit_code = "none"

\* no request was sent yet for any stream
StreamInit ==
    /\ session = [t \in Tuners |-> "INIT"]
    /\ teardown_raised = {}

\* session timeouts (seconds) a server announces in its SETUP answer
MaxTimeout == 6
\* OPTIONS requests one keep-alive thread sends during one behaviour
MaxOptions == 3

\* RtspClient.__init__: _running is the class attribute True, no thread yet
KaInit ==
    /\ ka_timeout = 0
    /\ ka_running = TRUE
    /\ ka_pc = "unset"
    /\ ka_left = 0
    /\ ka_waited = 0
    /\ ka_gaps = <<>>

\* the value get_first_rtcp_app_packet_from_rtcp_data returns when it falls off
\* its loop
NoPacket == [kind |-> "None", name |-> <<>>, application_data |-> <<>>]

\* no call of get_first_rtcp_app_packet_from_rtcp_data yet
RtcpInit ==
    /\ rtcp_packets = <<>>
    /\ rtcp_packet = <<>>
    /\ rtcp_index = 0
    /\ rtcp_pc = "idle"
    /\ rtcp_result = NoPacket

\* field values a caller passes to SatIpChannel: inside the ranges, on their
\* borders and just outside. frontend is <<>> for None and <<n>> for n;
\* rolloff is in hundredths
ChannelValues ==
    [frontend : {<<>>, <<0>>, <<1>>, <<65535>>, <<65536>>},
     src : {0, 1, 255, 256},
     frequency : {-1, 0, 10714},
     modulation_system : {"dvbs", "dvbs2", "dvbt"},
     modulation_type : {"qpsk", "8psk", "16apsk"},
     polarisation : {"h", "v", "x"},
     fec : {12, 910, 13},
     rolloff : {20, 35, 30},
     pids : {<<>>, <<0, 8191>>, <<0, 8192>>, <<-1>>}]

\* no SatIpChannel constructed yet
ChannelInit ==
    /\ channel = [frontend |-> <<>>, src |-> 1, frequency |-> 10714,
                  modulation_system |-> "dvbs", modulation_type |-> "qpsk",
                  polarisation |-> "h", fec |-> 12, rolloff |-> 20, pids |-> <<>>]
    /\ channel_pc = "idle"

\* what the display shows for a tuner before its first update
NoValues == [from |-> None, level |-> 0, quality |-> 0]

\* main() before its for loop: no sink registered, the display empty
SinkInit ==
    /\ tuner_idx = None
    /\ sink_pc = "for"
    /\ sinks = {}
    /\ display_values = [t \in Tuners |-> NoValues]

\* no SETUP answer processed yet
ParseInit ==
    /\ session_header = <<>>
    /\ parse_pc = "idle"
    /\ session_id = <<>>
    /\ session_timeout = 0

\* rtsp.py RtpConnection.__init__ after the sockets are bound: the class
\* attribute _received_thread_running is False, the thread not yet started
RxInit ==
    /\ received_thread_running = FALSE
    /\ rx_init = "start"
    /\ rx_thread = "unstarted"
    /\ rx_queue = [s \in Sockets |-> 0]
    /\ rx_read = <<>>
    /\ rx_arrived = 0
    /\ rx_close = "idle"

UnitInit == KaInit /\ RtcpInit /\ ChannelInit /\ SinkInit /\ ParseInit /\ RxInit

Init == RtpInit /\ MainInit /\ StreamInit /\ UnitInit

\* the frame the main thread is executing, and the stack with it replaced
Top == stack[Len(stack)]
SetTop(f) == [stack EXCEPT ![Len(stack)] = f]
At(p) == Top.pc = p

\* runs of signal_handler that have returned: every signal pushed a frame,
\* every return popped one
handled == signals - (Len(stack) - 1)
Goto(p) == stack' = SetTop([Top EXCEPT !.pc = p])

\* ---- RtspConnection.perform_rtsp_request
\* "with self._lock": the lock can be taken
LockHeldIgnored(c) == TRUE
LockFree(c) == lock[lock_of(c)] = <<"free", 0>>

\* thread th enters the body of perform_rtsp_request on connection c
Acquire(th, c) ==
    /\ LockFree(c)
    /\ lock' = [lock EXCEPT ![lock_of(c)] = th]
    /\ in_flight' = [in_flight EXCEPT ![c] = @ + 1]

\* the body ends (return or exception): the with-statement releases the lock
Release(c) ==
    /\ lock' = [lock EXCEPT ![lock_of(c)] = <<"free", 0>>]
    /\ in_flight' = [in_flight EXCEPT ![c] = @ - 1]

\* the result of the body: setopt on a closed pycurl handle raises pycurl.error;
\* otherwise whatever the server answers, or perform()/finalize() raising
Result(c, o) == IF curl_closed[curl_of(c)] THEN "raise" ELSE o

\* ---- main(): the startup loop
mainOthers == <<display, display_closes, signals, exit_code>>
closeCounts == <<teardowns, recv_closes, client_closes, client_close_result,
                 conn_closes, streamVars>>

\* rtsp_client = RtspClient(...); rtsp_clients.append(rtsp_client)
NewClient ==
    /\ At("new_client")
    /\ rtsp_clients' = Append(rtsp_clients, Top.idx)
    /\ Goto("setup_acquire")
    /\ UNCHANGED <<rtsp_streams, rtp_connections, lock, curl_closed, in_flight,
                   running, kpc, recv, play_result, options_on_closed>>
    /\ UNCHANGED <<mainOthers, closeCounts, rtpVars, unitVars>>

\* setup_stream: perform_rtsp_request(url, SETUP) takes the lock
SetupAcquire ==
    /\ At("setup_acquire")
    /\ Acquire(<<"main", 0>>, Top.idx)
    /\ Goto("setup_perform")
    /\ UNCHANGED <<rtsp_clients, rtsp_streams, rtp_connections, curl_closed,
                   running, kpc, recv, play_result, options_on_closed>>
    /\ UNCHANGED <<mainOthers, closeCounts, rtpVars, unitVars>>

\* setup_stream after the request: 200 -> the headers are read, the keep-alive
\* thread is started (_start_options_thread) and the stream returned; another
\* status -> None is returned; main() appends the result to rtsp_streams.
\* An exception goes to main()'s except: close_everything, exit(1).
SetupPerform(o) ==
    /\ At("setup_perform")
    /\ Release(Top.idx)
    /\ LET t == Top.idx
           r == Result(t, o) IN
       /\ running' = IF r = "200" THEN [running EXCEPT ![t] = TRUE] ELSE running
       /\ kpc' = IF r = "200" THEN [kpc EXCEPT ![t] = "while"] ELSE kpc
       /\ rtsp_streams' = CASE r = "200" -> Append(rtsp_streams, t)
                            [] r = "non200" -> Append(rtsp_streams, None)
                            [] OTHER -> rtsp_streams
       /\ Goto(IF r = "raise" THEN "ce_display" ELSE "play_new")
    /\ UNCHANGED <<rtsp_clients, rtp_connections, curl_closed, recv, play_result,
                   options_on_closed>>
    /\ UNCHANGED <<mainOthers, closeCounts, rtpVars, unitVars>>

\* rtsp_stream.play([1]) is called: on None it is an AttributeError, caught by
\* main()'s except; otherwise play() first constructs the RtpConnection
PlayNew ==
    /\ At("play_new")
    /\ LET t == Top.idx IN
       IF rtsp_streams[Len(rtsp_streams)] = None
       THEN Goto("ce_display") /\ UNCHANGED recv
       ELSE Goto("play_acquire") /\ recv' = [recv EXCEPT ![t] = "open"]
    /\ UNCHANGED <<rtsp_clients, rtsp_streams, rtp_connections, lock, curl_closed,
                   in_flight, running, kpc, play_result, options_on_closed>>
    /\ UNCHANGED <<mainOthers, closeCounts, rtpVars, unitVars>>

\* play: perform_rtsp_request(url, PLAY) takes the lock
PlayAcquire ==
    /\ At("play_acquire")
    /\ Acquire(<<"main", 0>>, Top.idx)
    /\ Goto("play_perform")
    /\ UNCHANGED <<rtsp_clients, rtsp_streams, rtp_connections, curl_closed,
                   running, kpc, recv, play_result, options_on_closed>>
    /\ UNCHANGED <<mainOthers, closeCounts, rtpVars, unitVars>>

\* play after the request: 200 -> the receiver is returned; another status ->
\* rtp_connection.close(), None returned; main() appends the result to
\* rtp_connections. An exception of the request leaves play() with the receiver
\* it bound still open, and goes to main()'s except.
PlayPerform(o) ==
    /\ At("play_perform")
    /\ Release(Top.idx)
    /\ LET t == Top.idx
           r == Result(t, o) IN
       /\ recv' = IF r = "non200" THEN [recv EXCEPT ![t] = "closed"] ELSE recv
       /\ recv_closes' = IF r = "non200" THEN [recv_closes EXCEPT ![t] = @ + 1]
                         ELSE recv_closes
       /\ play_result' = [play_result EXCEPT ![t] =
                             CASE r = "200" -> "ok" [] r = "non200" -> "none"
                               [] OTHER -> "raised"]
       /\ rtp_connections' = CASE r = "200" -> Append(rtp_connections, t)
                               [] r = "non200" -> Append(rtp_connections, None)
                               [] OTHER -> rtp_connections
       /\ Goto(IF r = "raise" THEN "ce_display" ELSE "register")
    /\ UNCHANGED <<rtsp_clients, rtsp_streams, curl_closed, running, kpc,
                   options_on_closed>>
    /\ UNCHANGED <<mainOthers, teardowns, client_closes,
                   client_close_result, conn_closes, rtpVars, unitVars, streamVars>>

\* rtp_connection.register_rtcp_packet_received_callback(...): outside any try,
\* so on None the AttributeError ends main() with a traceback; otherwise the
\* loop goes on with the next tuner, and after the last one display.start()
Register ==
    /\ At("register")
    /\ IF rtp_connections[Len(rtp_connections)] = None
       THEN /\ Goto("traceback")
            /\ exit_code' = "traceback"
       ELSE /\ stack' = SetTop([Top EXCEPT
                  !.pc = IF Top.idx = NumTuners THEN "display_start" ELSE "new_client",
                  !.idx = IF Top.idx = NumTuners THEN @ ELSE @ + 1])
            /\ UNCHANGED exit_code
    /\ UNCHANGED <<rtsp_clients, rtsp_streams, rtp_connections, lock, curl_closed,
                   in_flight, running, kpc, recv, play_result,
                   options_on_closed>>
    /\ UNCHANGED <<display, display_closes, signals, closeCounts, rtpVars, unitVars>>

\* display.start(); main() returns and the interpreter waits for the threads
DisplayStart ==
    /\ At("display_start")
    /\ display' = "started"
    /\ Goto("blocked")
    /\ UNCHANGED <<rtsp_clients, rtsp_streams, rtp_connections, lock, curl_closed,
                   in_flight, running, kpc, recv, play_result,
                   options_on_closed>>
    /\ UNCHANGED <<display_closes, signals, exit_code, closeCounts, rtpVars, unitVars>>

\* ---- close_everything
Reversed(list) == [n \in 1..Len(list) |-> list[Len(list) + 1 - n]]
\* the order in which "for x in list" of close_everything visits a list
close_order(list) == list

\* display.close(): stops the live display when it is started
display_close ==
    /\ display' = IF display = "started" THEN "closed" ELSE display
    /\ display_closes' = display_closes + 1

\* close_everything(display, ...) of main()'s except blocks: display.close()
CeDisplay ==
    /\ At("ce_display")
    /\ display_close
    /\ stack' = SetTop([Top EXCEPT !.pc = "ce_stream", !.k = 1])
    /\ UNCHANGED <<rtsp_clients, rtsp_streams, rtp_connections, lock, curl_closed,
                   in_flight, running, kpc, recv, play_result,
                   options_on_closed>>
    /\ UNCHANGED <<signals, exit_code, closeCounts, rtpVars, unitVars>>

\* with contextlib.suppress(Exception): where close_everything goes on after
\* the close inside the with block raised -- with the next element of the
\* loop it is in
ExceptionPropagates(loop) == "ce_return"
suppress(loop) == loop

\* for s in rtsp_streams: if s: s.teardown() -- the call, up to the lock
CeStream ==
    /\ At("ce_stream")
    /\ IF Top.k > Len(rtsp_streams)
       THEN /\ stack' = SetTop([Top EXCEPT !.pc = "ce_recv", !.k = 1])
            /\ UNCHANGED teardowns
       ELSE LET s == close_order(rtsp_streams)[Top.k] IN
            IF s = None
            THEN /\ stack' = SetTop([Top EXCEPT !.k = @ + 1])
                 /\ UNCHANGED teardowns
            ELSE /\ teardowns' = [teardowns EXCEPT ![s] = @ + 1]
                 /\ Goto("ce_stream_acquire")
    /\ UNCHANGED <<rtsp_clients, rtsp_streams, rtp_connections, lock, curl_closed,
                   in_flight, running, kpc, recv, play_result,
                   options_on_closed>>
    /\ UNCHANGED <<mainOthers, recv_closes, client_closes,
                   client_close_result, conn_closes, rtpVars, unitVars, streamVars>>

\* teardown: perform_rtsp_request(url, TEARDOWN) takes the lock
CeStreamAcquire ==
    /\ At("ce_stream_acquire")
    /\ Acquire(<<"main", 0>>, close_order(rtsp_streams)[Top.k])
    /\ Goto("ce_stream_perform")
    /\ UNCHANGED <<rtsp_clients, rtsp_streams, rtp_connections, curl_closed,
                   running, kpc, recv, play_result, options_on_closed>>
    /\ UNCHANGED <<mainOthers, closeCounts, rtpVars, unitVars>>

\* teardown after the request: True on 200, False otherwise, or the exception
\* of the request; close_everything drops the result and suppresses the
\* exception
CeStreamPerform ==
    /\ At("ce_stream_perform")
    /\ LET s == close_order(rtsp_streams)[Top.k] IN
       /\ Release(s)
       /\ \E o \in Outcomes :
             stack' = SetTop([Top EXCEPT
                                 !.pc = IF Result(s, o) = "raise"
                                        THEN suppress("ce_stream") ELSE "ce_stream",
                                 !.k = @ + 1])
    /\ UNCHANGED <<rtsp_clients, rtsp_streams, rtp_connections, curl_closed,
                   running, kpc, recv, play_result, options_on_closed>>
    /\ UNCHANGED <<mainOthers, teardowns, recv_closes, client_closes,
                   client_close_result, conn_closes, rtpVars, unitVars, streamVars>>

\* for r in rtp_connections: if r: r.close() -- the close() of a receiver that
\* is closed already raises OSError
CeRecv ==
    /\ At("ce_recv")
    /\ IF Top.k > Len(rtp_connections)
       THEN /\ stack' = SetTop([Top EXCEPT !.pc = "ce_client", !.k = 1])
            /\ UNCHANGED <<recv, recv_closes>>
       ELSE LET r == close_order(rtp_connections)[Top.k] IN
            /\ stack' = SetTop([Top EXCEPT
                                   !.pc = IF r # None /\ recv[r] = "closed"
                                          THEN suppress("ce_recv") ELSE "ce_recv",
                                   !.k = @ + 1])
            /\ IF r = None
               THEN UNCHANGED <<recv, recv_closes>>
               ELSE /\ recv' = [recv EXCEPT ![r] = "closed"]
                    /\ recv_closes' = [recv_closes EXCEPT ![r] = @ + 1]
    /\ UNCHANGED <<rtsp_clients, rtsp_streams, rtp_connections, lock, curl_closed,
                   in_flight, running, kpc, play_result, options_on_closed>>
    /\ UNCHANGED <<mainOthers, teardowns, client_closes,
                   client_close_result, conn_closes, rtpVars, unitVars, streamVars>>

\* the keep-alive thread of client c has ended (Thread.is_alive() is false)
thread_ended(c) == kpc[c] = "done"

\* for c in rtsp_clients: c.close() -- RtspClient.close up to the join:
\* self._running = False, then self._options_thread is read, an AttributeError
\* when _start_options_thread never ran (suppressed by close_everything)
CeClient ==
    /\ At("ce_client")
    /\ IF Top.k > Len(rtsp_clients)
       THEN /\ Goto("ce_return")
            /\ UNCHANGED <<running, client_closes, client_close_result>>
       ELSE LET c == close_order(rtsp_clients)[Top.k] IN
            /\ running' = [running EXCEPT ![c] = FALSE]
            /\ client_closes' = [client_closes EXCEPT ![c] = @ + 1]
            /\ IF kpc[c] = "unset"
               THEN /\ client_close_result' = [client_close_result EXCEPT ![c] = "raised"]
                    /\ stack' = SetTop([Top EXCEPT !.pc = suppress("ce_client"),
                                                   !.k = @ + 1])
               ELSE /\ UNCHANGED client_close_result
                    /\ Goto("ce_client_join")
    /\ UNCHANGED <<rtsp_clients, rtsp_streams, rtp_connections, lock, curl_closed,
                   in_flight, kpc, recv, play_result, options_on_closed>>
    /\ UNCHANGED <<mainOthers, teardowns, recv_closes,
                   conn_closes, rtpVars, unitVars, streamVars>>

\* RtspClient.close: the join of a thread that is alive returns when it has
\* ended; then self._connection.close(), which closes the curl handle
CeClientJoin ==
    /\ At("ce_client_join")
    /\ LET c == close_order(rtsp_clients)[Top.k] IN
       /\ thread_ended(c)
       /\ curl_closed' = [curl_closed EXCEPT ![curl_of(c)] = TRUE]
       /\ conn_closes' = [conn_closes EXCEPT ![c] = @ + 1]
       /\ client_close_result' = [client_close_result EXCEPT ![c] = "returned"]
       /\ stack' = SetTop([Top EXCEPT !.pc = "ce_client", !.k = @ + 1])
    /\ UNCHANGED <<rtsp_clients, rtsp_streams, rtp_connections, lock, in_flight,
                   running, kpc, recv, play_result, options_on_closed>>
    /\ UNCHANGED <<mainOthers, teardowns, recv_closes,
                   client_closes, rtpVars, unitVars, streamVars>>

\* close_everything returns: main() goes on to exit(1), signal_handler returns
\* to the code it interrupted
CeReturn ==
    /\ At("ce_return")
    /\ IF Top.ctx = "main"
       THEN /\ Goto("exited")
            /\ exit_code' = "exit(1)"
       ELSE /\ stack' = SubSeq(stack, 1, Len(stack) - 1)
            /\ UNCHANGED exit_code
    /\ UNCHANGED <<rtsp_clients, rtsp_streams, rtp_connections, lock, curl_closed,
                   in_flight, running, kpc, recv, play_result,
                   options_on_closed>>
    /\ UNCHANGED <<display, display_closes, signals, closeCounts, rtpVars, unitVars>>

\* ---- signal_handler
\* SIGINT or SIGTERM is delivered: Python runs signal_handler on the main
\* thread, on top of whatever the main thread was executing
\* the first statement of signal_handler
HandlerSkipsDisplay == "ce_stream"
handler_entry == "h_display"

Signal ==
    /\ signals < MaxSignals
    /\ stack[1].pc # "exited"
    /\ signals' = signals + 1
    /\ stack' = Append(stack, [ctx |-> "handler", pc |-> handler_entry, idx |-> 0, k |-> 1])
    /\ UNCHANGED <<rtsp_clients, rtsp_streams, rtp_connections, lock, curl_closed,
                   in_flight, running, kpc, recv, play_result,
                   options_on_closed>>
    /\ UNCHANGED <<display, display_closes, exit_code, closeCounts, rtpVars, unitVars>>

\* signal_handler: display.close(), log, close_everything(None, ...)
signal_handler ==
    /\ At("h_display")
    /\ display_close
    /\ stack' = SetTop([Top EXCEPT !.pc = "ce_stream", !.k = 1])
    /\ UNCHANGED <<rtsp_clients, rtsp_streams, rtp_connections, lock, curl_closed,
                   in_flight, running, kpc, recv, play_result,
                   options_on_closed>>
    /\ UNCHANGED <<signals, exit_code, closeCounts, rtpVars, unitVars>>

\* ---- RtspClient._start_options_thread: thread_wrapper of client c
\* while self._running
KaWhile(c) ==
    /\ kpc[c] = "while"
    /\ kpc' = [kpc EXCEPT ![c] = IF running[c] THEN "sleep" ELSE "done"]
    /\ UNCHANGED <<stack, rtsp_clients, rtsp_streams, rtp_connections, lock,
                   curl_closed, in_flight, running, recv, play_result,
                   options_on_closed>>
    /\ UNCHANGED <<mainOthers, closeCounts, rtpVars, unitVars>>

\* time.sleep(timeout - 2) returns and send_options_request is called:
\* perform_rtsp_request(url, OPTIONS) takes the lock
KaSleep(c) ==
    /\ kpc[c] = "sleep"
    /\ Acquire(<<"keepalive", c>>, c)
    /\ kpc' = [kpc EXCEPT ![c] = "perform"]
    /\ UNCHANGED <<stack, rtsp_clients, rtsp_streams, rtp_connections,
                   curl_closed, running, recv, play_result,
                   options_on_closed>>
    /\ UNCHANGED <<mainOthers, closeCounts, rtpVars, unitVars>>

\* send_options_request after the request: a status other than 200 is printed,
\* an exception ends the thread
KaPerform(c, o) ==
    /\ kpc[c] = "perform"
    /\ Release(c)
    /\ kpc' = [kpc EXCEPT ![c] = IF Result(c, o) = "raise" THEN "done" ELSE "while"]
    /\ options_on_closed' = (options_on_closed \/ curl_closed[curl_of(c)])
    /\ UNCHANGED <<stack, rtsp_clients, rtsp_streams, rtp_connections,
                   curl_closed, running, recv, play_result>>
    /\ UNCHANGED <<mainOthers, closeCounts, rtpVars, unitVars>>

MainNext ==
    \/ NewClient
    \/ SetupAcquire
    \/ \E o \in Outcomes : SetupPerform(o)
    \/ PlayNew
    \/ PlayAcquire
    \/ \E o \in Outcomes : PlayPerform(o)
    \/ Register
    \/ DisplayStart
    \/ CeDisplay
    \/ CeStream
    \/ CeStreamAcquire
    \/ CeStreamPerform
    \/ CeRecv
    \/ CeClient
    \/ CeClientJoin
    \/ CeReturn
    \/ Signal
    \/ signal_handler
    \/ \E c \in Tuners : KaWhile(c)
    \/ \E c \in Tuners : KaSleep(c)
    \/ \E c \in Tuners, o \in OptionsOutcomes : KaPerform(c, o)

SpecMain == Init /\ [][MainNext]_vars

\* ------------------------------------------------------------ rtsp.py RtspStream
\* One caller using the streams of rtsp.py one call at a time, as main() of
\* satip_finder.py does (setup_stream, play, teardown, close), in any order the
\* objects allow. session[t] follows the answers the requests got:
\* INIT -SETUP 200-> READY -PLAY 200-> PLAYING -TEARDOWN 200-> CLOSED, and
\* FAILED after a request that raised or was refused.

\* calls of teardown() on one stream
MaxTeardowns == 2

\* the other variables of main(), untouched by the calls of this section
streamOthers == <<stack, rtp_connections, display, in_flight, lock, running, kpc,
                  recv, play_result, recv_closes, client_closes,
                  client_close_result, display_closes, signals,
                  options_on_closed, exit_code, rtpVars, unitVars>>

\* an RtspStream object exists for tuner t: setup_stream returned it
has_stream(t) == \E n \in 1..Len(rtsp_streams) : rtsp_streams[n] = t

\* client = RtspClient(...): its RtspConnection is constructed
StreamNewClient(t) ==
    /\ \A n \in 1..Len(rtsp_clients) : rtsp_clients[n] # t
    /\ rtsp_clients' = Append(rtsp_clients, t)
    /\ UNCHANGED <<rtsp_streams, curl_closed, teardowns, conn_closes, streamVars,
                   streamOthers>>

\* RtspClient.setup_stream, the whole call: the stream on 200, None otherwise
StreamSetup(t, o) ==
    /\ \E n \in 1..Len(rtsp_clients) : rtsp_clients[n] = t
    /\ session[t] = "INIT"
    /\ LockFree(t)
    /\ LET r == Result(t, o) IN
       /\ session' = [session EXCEPT ![t] = IF r = "200" THEN "READY" ELSE "FAILED"]
       /\ rtsp_streams' = IF r = "200" THEN Append(rtsp_streams, t) ELSE rtsp_streams
    /\ UNCHANGED <<rtsp_clients, curl_closed, teardowns, conn_closes,
                   teardown_raised, streamOthers>>

\* RtspStream.play, the whole call
StreamPlay(t, o) ==
    /\ has_stream(t)
    /\ session[t] = "READY"
    /\ LockFree(t)
    /\ session' = [session EXCEPT ![t] =
                      IF Result(t, o) = "200" THEN "PLAYING" ELSE "FAILED"]
    /\ UNCHANGED <<rtsp_clients, rtsp_streams, curl_closed, teardowns, conn_closes,
                   teardown_raised, streamOthers>>

\* the answers a server can give to TEARDOWN: a session that is closed already
\* is not found (454)
TeardownOutcomes(t) == IF session[t] = "CLOSED" THEN Outcomes \ {"200"} ELSE Outcomes

\* RtspStream.teardown, the whole call: it sends a TEARDOWN request whatever
\* happened before, returns True on 200 and False otherwise, and an exception
\* of perform_rtsp_request leaves it
teardown(t, o) ==
    /\ has_stream(t)
    /\ teardowns[t] < MaxTeardowns
    /\ o \in TeardownOutcomes(t)
    /\ LockFree(t)
    /\ teardowns' = [teardowns EXCEPT ![t] = @ + 1]
    /\ LET r == Result(t, o) IN
       /\ session' = [session EXCEPT ![t] =
                         CASE r = "200" -> "CLOSED"
                           [] r = "raise" /\ @ # "CLOSED" -> "FAILED"
                           [] OTHER -> @]
       /\ teardown_raised' =
              IF r = "raise"
              THEN teardown_raised \cup ({session[t]} \cap {"CLOSED", "FAILED"})
              ELSE teardown_raised
    /\ UNCHANGED <<rtsp_clients, rtsp_streams, curl_closed, conn_closes, streamOthers>>

\* RtspConnection.close(), reached from RtspClient.close(): self._curl.close()
connection_close(t) ==
    /\ \E n \in 1..Len(rtsp_clients) : rtsp_clients[n] = t
    /\ conn_closes[t] = 0
    /\ curl_closed' = [curl_closed EXCEPT ![curl_of(t)] = TRUE]
    /\ conn_closes' = [conn_closes EXCEPT ![t] = @ + 1]
    /\ UNCHANGED <<rtsp_clients, rtsp_streams, teardowns, streamVars, streamOthers>>

StreamNext ==
    \/ \E t \in Tuners : StreamNewClient(t)
    \/ \E t \in Tuners, o \in Outcomes : StreamSetup(t, o)
    \/ \E t \in Tuners, o \in Outcomes : StreamPlay(t, o)
    \/ \E t \in Tuners, o \in Outcomes : teardown(t, o)
    \/ \E t \in Tuners : connection_close(t)

SpecStream == Init /\ [][StreamNext]_vars

\* ------------------------------------------------------------ rtp.py, continued
RtpNext ==
    \/ \E s \in Sockets, d \in Datagrams : Arrive(s, d)
    \/ \E s \in Sockets : register_callback(s)
    \/ ThreadWhile
    \/ ThreadSelectEnter
    \/ ThreadSelectReturn
    \/ ThreadFor
    \/ ThreadCallback
    \/ CloseCall
    \/ CloseSetEvent
    \/ CloseWritePipe
    \/ \E s \in Sockets : CloseSocket(s)
    \/ CloseJoin

SpecRtp == Init /\ [][RtpNext]_vars

\* the steps the scheduler keeps taking: the receive thread runs while it can
\* (select returns once a descriptor is readable, a callback returns), and a
\* caller inside close() goes on to its next statement. Datagrams, callback
\* registration and calls of close() are up to the environment.
RtpFairness ==
    /\ WF_vars(ThreadWhile)
    /\ WF_vars(ThreadSelectEnter)
    /\ WF_vars(ThreadSelectReturn)
    /\ WF_vars(ThreadFor)
    /\ WF_vars(ThreadCallback)
    /\ WF_vars(CloseSetEvent)
    /\ WF_vars(CloseWritePipe)
    /\ WF_vars(\E s \in Sockets : CloseSocket(s))
    /\ WF_vars(CloseJoin)

SpecRtpFair == SpecRtp /\ RtpFairness

\* ------------------------------------------------ rtsp.py keep-alive timing
\* the argument of time.sleep in thread_wrapper
sleep_length(timeout) == timeout - 2

\* setup_stream calls _start_options_thread(timeout) with the timeout of the
\* Session header: _running = True, the thread is started
start_options_thread(timeout) ==
    /\ ka_pc = "unset"
    /\ ka_timeout' = timeout
    /\ ka_running' = TRUE
    /\ ka_pc' = "while"
    /\ UNCHANGED <<ka_left, ka_waited, ka_gaps>>
    /\ UNCHANGED kaOthers

\* while self._running: time.sleep(timeout - 2) is called; a negative length
\* raises ValueError, which ends the thread
TwWhile ==
    /\ ka_pc = "while"
    /\ Len(ka_gaps) < MaxOptions
    /\ IF ~ka_running
       THEN ka_pc' = "done" /\ UNCHANGED ka_left
       ELSE IF sleep_length(ka_timeout) < 0
       THEN ka_pc' = "raised" /\ UNCHANGED ka_left
       ELSE ka_pc' = "sleeping" /\ ka_left' = sleep_length(ka_timeout)
    /\ UNCHANGED <<ka_timeout, ka_running, ka_waited, ka_gaps>>
    /\ UNCHANGED kaOthers

\* a second of the sleep passes
TwSecond ==
    /\ ka_pc = "sleeping"
    /\ ka_left > 0
    /\ ka_left' = ka_left - 1
    /\ ka_waited' = ka_waited + 1
    /\ UNCHANGED <<ka_timeout, ka_running, ka_pc, ka_gaps>>
    /\ UNCHANGED kaOthers

\* time.sleep returns when the whole length has passed
SleepReturnsEarly(left) == TRUE
sleep_over(left) == left = 0

\* the sleep is over: send_options_request(); an exception of the request ends
\* the thread
send_options_request(o) ==
    /\ ka_pc = "sleeping"
    /\ sleep_over(ka_left)
    /\ ka_gaps' = Append(ka_gaps, ka_waited)
    /\ ka_waited' = 0
    /\ ka_pc' = IF o = "raise" THEN "done" ELSE "while"
    /\ UNCHANGED <<ka_timeout, ka_running, ka_left>>
    /\ UNCHANGED kaOthers

\* RtspClient.close(): self._running = False
TwStop ==
    /\ ka_pc # "unset"
    /\ ka_running
    /\ ka_running' = FALSE
    /\ UNCHANGED <<ka_timeout, ka_pc, ka_left, ka_waited, ka_gaps>>
    /\ UNCHANGED kaOthers

KeepAliveNext ==
    \/ \E timeout \in 1..MaxTimeout : start_options_thread(timeout)
    \/ TwWhile
    \/ TwSecond
    \/ \E o \in OptionsOutcomes : send_options_request(o)
    \/ TwStop

SpecKeepAlive == Init /\ [][KeepAliveNext]_vars

\* ------------------------------------------------------------ rtcp.py
\* RTCP packets in one received datagram
MaxPackets == 3

\* the packets a datagram is made of: a receiver report without report
\* blocks (8 bytes), a BYE without sources (4 bytes), and two SAT>IP APP
\* packets that differ in their string
PacketKinds == {"RR", "BYE", "APPa", "APPb"}

IsApp(k) == k \in {"APPa", "APPb"}

\* the string of an APP packet, as bytes
AppString(k) == IF k = "APPa" THEN <<97>> ELSE <<98>>

\* bytes of 'SES1'
SES1 == <<83, 69, 83, 49>>

\* pieces of a buffer that is no valid compound: a packet of version 1, a
\* packet that declares 24 bytes and has 4, and a header cut off after 3 bytes
Malformed == {"V1", "LONG", "CUT"}

\* the bytes of one packet: V=2/P/count, packet type, length in 32-bit words
\* minus one, then SSRC and body; the APP body is name, identifier 0000,
\* string length, string padded with null bytes to the 32-bit boundary
PacketBytes(k) ==
    CASE k = "RR"  -> <<128, 201, 0, 1, 1, 2, 3, 4>>
      [] k = "BYE" -> <<128, 203, 0, 0>>
      [] k = "V1"  -> <<64, 203, 0, 0>>
      [] k = "LONG" -> <<128, 203, 0, 5>>
      [] k = "CUT" -> <<128, 201, 0>>
      [] OTHER     -> <<128, 204, 0, 4, 1, 2, 3, 4>> \o SES1 \o <<0, 0, 0, 1>>
                          \o AppString(k) \o <<0, 0, 0>>

RECURSIVE DatagramBytes(_)
DatagramBytes(ps) ==
    IF ps = <<>> THEN <<>> ELSE PacketBytes(Head(ps)) \o DatagramBytes(Tail(ps))

\* Python's packet[a:b] for 0 <= a <= b
Slice(bytes, a, b) ==
    SubSeq(bytes, a + 1, IF b < Len(bytes) THEN b ELSE Len(bytes))

\* int.from_bytes(b, byteorder='big')
RECURSIVE from_bytes(_)
from_bytes(b) ==
    IF b = <<>> THEN 0
    ELSE from_bytes(SubSeq(b, 1, Len(b) - 1)) * 256 + b[Len(b)]

\* str.rstrip('\0')
RECURSIVE rstrip(_)
rstrip(b) ==
    IF b # <<>> /\ b[Len(b)] = 0 THEN rstrip(SubSeq(b, 1, Len(b) - 1)) ELSE b

\* bytes.decode succeeds; of the bytes that occur in a datagram here those of
\* 128 and above are a packet's first byte (0x80), which starts no UTF-8
\* sequence and is no ASCII
Decodes(b) == \A i \in 1..Len(b) : b[i] < 128

\* RtcpPacketAppSatIp(specific_data) raises
AppRaises(specific_data) ==
    \/ ~Decodes(Slice(specific_data, 0, 4))
    \/ ~Decodes(Slice(specific_data, 8, Len(specific_data)))
    \/ from_bytes(Slice(specific_data, 4, 6)) # 0
    \/ Len(rstrip(Slice(specific_data, 8, Len(specific_data))))
           # from_bytes(Slice(specific_data, 6, 8))

\* RtcpPacketAppSatIp(specific_data), when it does not raise
RtcpPacketAppSatIp(specific_data) ==
    [kind |-> "APP",
     name |-> Slice(specific_data, 0, 4),
     application_data |-> rstrip(Slice(specific_data, 8, Len(specific_data)))]

\* a datagram is received and get_first_rtcp_app_packet_from_rtcp_data(packet)
\* is called: index = 0
get_first_rtcp_app_packet(ps) ==
    /\ rtcp_pc = "idle"
    /\ rtcp_packets' = ps
    /\ rtcp_packet' = DatagramBytes(ps)
    /\ rtcp_index' = 0
    /\ rtcp_pc' = "while"
    /\ UNCHANGED rtcp_result
    /\ UNCHANGED rtcpOthers

\* specific_data = packet[index:index+length-4], index being packet_start + 8
specific_data_of(packet_start, length) ==
    Slice(rtcp_packet, packet_start + 8, packet_start + 8 + length - 4)

\* the length field is N, without the header word
LengthWithoutHeader(n) == n * 4

\* length = int.from_bytes(packet[index:index+2], byteorder='big') * 4 + 4
declared_length(n) == n * 4 + 4

\* one pass of "while index + 4 < packet_length"
RtcpWhile ==
    /\ rtcp_pc = "while"
    /\ IF ~(rtcp_index + 4 < Len(rtcp_packet))
       THEN /\ rtcp_pc' = "returned"
            /\ rtcp_result' = NoPacket
            /\ UNCHANGED rtcp_index
       ELSE LET packet_start == rtcp_index
                byte_0 == rtcp_packet[rtcp_index + 1]
                version == byte_0 \div 64
                packet_type == rtcp_packet[rtcp_index + 2]
                length == declared_length(from_bytes(
                              Slice(rtcp_packet, rtcp_index + 2, rtcp_index + 4)))
                specific_data == specific_data_of(packet_start, length)
            IN  IF version # 2 \/ packet_start + length > Len(rtcp_packet)
                THEN /\ rtcp_pc' = "raised"
                     /\ rtcp_index' = rtcp_index + 8
                     /\ UNCHANGED rtcp_result
                ELSE /\ rtcp_index' = packet_start + length
                     /\ IF packet_type # 204
                        THEN UNCHANGED <<rtcp_pc, rtcp_result>>
                        ELSE IF AppRaises(specific_data)
                        THEN rtcp_pc' = "raised" /\ UNCHANGED rtcp_result
                        ELSE /\ rtcp_pc' = "returned"
                             /\ rtcp_result' = RtcpPacketAppSatIp(specific_data)
    /\ UNCHANGED <<rtcp_packets, rtcp_packet>>
    /\ UNCHANGED rtcpOthers

\* the datagrams: up to MaxPackets packets
Compounds == UNION {[1..n -> PacketKinds] : n \in 0..MaxPackets}

RtcpNext ==
    \/ \E ps \in Compounds : get_first_rtcp_app_packet(ps)
    \/ RtcpWhile

SpecRtcp == Init /\ [][RtcpNext]_vars

\* any buffer a datagram may hold: up to MaxPackets pieces, malformed ones too
Buffers == UNION {[1..n -> PacketKinds \cup Malformed] : n \in 0..MaxPackets}

RtcpAnyNext ==
    \/ \E ps \in Buffers : get_first_rtcp_app_packet(ps)
    \/ RtcpWhile

SpecRtcpAny == Init /\ [][RtcpAnyNext]_vars

\* a call that was made keeps running: the loop takes its next pass
SpecRtcpAnyFair == SpecRtcpAny /\ WF_vars(RtcpWhile)

\* ------------------------------------------------------------ satip.py
\* SatIpChannel(...): the dataclass __init__ stores the fields and calls
\* __post_init__
SatIpChannel(c) ==
    /\ channel_pc = "idle"
    /\ channel' = c
    /\ channel_pc' = "post_init"
    /\ UNCHANGED channelOthers

\* the tests of __post_init__: one of them raises ValueError
post_init_raises(c) ==
    \/ c.frontend # <<>> /\ (c.frontend[1] < 1 \/ c.frontend[1] > 65535)
    \/ c.src < 1 \/ c.src > 255
    \/ c.polarisation \notin {"v", "h"}
    \/ c.modulation_system \notin {"dvbs", "dvbs2"}
    \/ c.modulation_type \notin {"qpsk", "8psk"}
    \/ c.fec \notin {12, 23, 34, 56, 78, 89, 35, 45, 910}
    \/ c.rolloff \notin {20, 25, 35}
    \/ \E i \in 1..Len(c.pids) : c.pids[i] < 0 \/ c.pids[i] > 8191

\* SatIpChannel.__post_init__
post_init ==
    /\ channel_pc = "post_init"
    /\ channel_pc' = IF post_init_raises(channel) THEN "raised" ELSE "constructed"
    /\ UNCHANGED channel
    /\ UNCHANGED channelOthers

\* the arguments of a construction, when one can take place
ChannelArgs == IF channel_pc = "idle" THEN ChannelValues ELSE {}

ChannelNext ==
    \/ \E c \in ChannelArgs : SatIpChannel(c)
    \/ post_init

SpecChannel == Init /\ [][ChannelNext]_vars

\* ------------------------------------------- main.py show_signal_and_quality
\* for tuner_idx, channel in enumerate(arg_channels): the next tuner is bound
\* to tuner_idx, or the loop ends and main() goes on to display.start()
ForTuner ==
    /\ sink_pc = "for"
    /\ IF tuner_idx < NumTuners
       THEN tuner_idx' = tuner_idx + 1 /\ sink_pc' = "register"
       ELSE sink_pc' = "started" /\ UNCHANGED tuner_idx
    /\ UNCHANGED <<sinks, display_values>>
    /\ UNCHANGED sinkOthers

\* def show_signal_and_quality ... ;
\* rtp_connection.register_rtcp_packet_received_callback(show_signal_and_quality)
\* on the receiver of the current tuner
register_rtcp_packet_received_callback ==
    /\ sink_pc = "register"
    /\ sinks' = sinks \cup {tuner_idx}
    /\ sink_pc' = "for"
    /\ UNCHANGED <<tuner_idx, display_values>>
    /\ UNCHANGED sinkOthers

\* (signal_level, quality) of the APP packets the receivers get
Metrics == {0, 115, 255} \X {0, 13, 15}

\* int((app_packet.signal_level / 255) * 100)
level_pct(signal_level) == (signal_level * 100) \div 255

\* int((app_packet.quality / 15) * 100)
snr_pct(quality) == (quality * 100) \div 15

\* display.update_tuner(index, level, snr) for a datagram of receiver r
update_tuner(index, level, snr, r) ==
    display_values' = [display_values EXCEPT
                          ![index] = [from |-> r, level |-> level, quality |-> snr]]

\* the receive thread of tuner r's receiver calls its sink with a datagram:
\* show_signal_and_quality reads tuner_idx when it runs
show_signal_and_quality(r, m) ==
    /\ r \in sinks
    /\ update_tuner(tuner_idx, level_pct(m[1]), snr_pct(m[2]), r)
    /\ UNCHANGED <<tuner_idx, sink_pc, sinks>>
    /\ UNCHANGED sinkOthers

SinkNext ==
    \/ ForTuner
    \/ register_rtcp_packet_received_callback
    \/ \E r \in Tuners, m \in Metrics : show_signal_and_quality(r, m)

SpecSink == Init /\ [][SinkNext]_vars

\* ------------------------------------------- rtsp.py setup_stream, headers
\* decimal digits of a header value
MaxDigits == 2

\* digit strings of 1..MaxDigits digits
DigitStrings == UNION {[1..n -> {0, 1, 3, 6}] : n \in 1..MaxDigits}

\* a part of the header value: a session id is a digit string, the timeout
\* parameter is 'timeout=' followed by one
SessionIds == {[prefix |-> "", digits |-> d] : d \in {<<1>>, <<3, 6>>}}
TimeoutParams == {[prefix |-> "timeout=", digits |-> d] : d \in DigitStrings}

\* Session header values: '<id>' and '<id>;timeout=<n>'
SessionHeaders ==
    {<<id>> : id \in SessionIds}
        \cup {<<id, tp>> : id \in SessionIds, tp \in TimeoutParams}

\* int(s) of a digit string
RECURSIVE int(_)
int(d) == IF d = <<>> THEN 0 ELSE int(SubSeq(d, 1, Len(d) - 1)) * 10 + d[Len(d)]

\* the 200 answer of a SETUP is processed: headers['Session'] is read
read_session_header(h) ==
    /\ parse_pc = "idle"
    /\ session_header' = h
    /\ parse_pc' = "split"
    /\ UNCHANGED <<session_id, session_timeout>>
    /\ UNCHANGED parseOthers

\* session_id,timeout = rtsp_response.headers['Session'].split(';'):
\* unpacking anything but two parts raises ValueError
split_session ==
    /\ parse_pc = "split"
    /\ IF Len(session_header) = 2
       THEN /\ session_id' = session_header[1].digits
            /\ parse_pc' = "int"
       ELSE /\ parse_pc' = "raised"
            /\ UNCHANGED session_id
    /\ UNCHANGED <<session_header, session_timeout>>
    /\ UNCHANGED parseOthers

\* the value of "x or 60"
or_60(x) == IF x = 0 THEN 60 ELSE x

\* timeout = int(timeout.replace('timeout=', '')) or 60
parse_timeout ==
    /\ parse_pc = "int"
    /\ session_timeout' = or_60(int(session_header[2].digits))
    /\ parse_pc' = "returned"
    /\ UNCHANGED <<session_header, session_id>>
    /\ UNCHANGED parseOthers

ParseNext ==
    \/ \E h \in SessionHeaders : read_session_header(h)
    \/ split_session
    \/ parse_timeout

SpecParse == Init /\ [][ParseNext]_vars

\* ----------------------------------------------- rtsp.py RtpConnection
\* self._received_thread.start()
RxStartThread ==
    /\ rx_init = "start"
    /\ rx_thread' = "while"
    /\ rx_init' = "set_running"
    /\ UNCHANGED <<received_thread_running, rx_queue, rx_read, rx_arrived, rx_close>>
    /\ UNCHANGED rxOthers

\* self._received_thread_running = True, and __init__ returns
RxSetRunning ==
    /\ rx_init = "set_running"
    /\ received_thread_running' = TRUE
    /\ rx_init' = "done"
    /\ UNCHANGED <<rx_thread, rx_queue, rx_read, rx_arrived, rx_close>>
    /\ UNCHANGED rxOthers

\* a datagram reaches one of the two bound ports
RxArrive(s) ==
    /\ rx_arrived < MaxDatagrams
    /\ rx_arrived' = rx_arrived + 1
    /\ rx_queue' = IF rx_queue[s] < MaxQueue
                   THEN [rx_queue EXCEPT ![s] = @ + 1] ELSE rx_queue
    /\ UNCHANGED <<received_thread_running, rx_init, rx_thread, rx_read, rx_close>>
    /\ UNCHANGED rxOthers

\* while self._received_thread_running
RxWhile ==
    /\ rx_thread = "while"
    /\ rx_thread' = IF received_thread_running THEN "select" ELSE "exited"
    /\ UNCHANGED <<received_thread_running, rx_init, rx_queue, rx_read,
                   rx_arrived, rx_close>>
    /\ UNCHANGED rxOthers

\* what select([rtp, rtcp], [], []) reports readable
RxReadable(s) == rx_queue[s] > 0

\* select.select returns, once a socket is readable: it has no timeout and no
\* other descriptor to wake it
RxSelect ==
    /\ rx_thread = "select"
    /\ \E s \in Sockets : RxReadable(s)
    /\ rx_read' = SelectSeq(<<"rtp", "rtcp">>, RxReadable)
    /\ rx_thread' = "for"
    /\ UNCHANGED <<received_thread_running, rx_init, rx_queue, rx_arrived, rx_close>>
    /\ UNCHANGED rxOthers

\* one iteration of "for sock in read_sockets": recv and print
RxFor ==
    /\ rx_thread = "for"
    /\ IF rx_read = <<>>
       THEN rx_thread' = "while" /\ UNCHANGED <<rx_read, rx_queue>>
       ELSE /\ rx_queue' = [rx_queue EXCEPT ![Head(rx_read)] = @ - 1]
            /\ rx_read' = Tail(rx_read)
            /\ UNCHANGED rx_thread
    /\ UNCHANGED <<received_thread_running, rx_init, rx_arrived, rx_close>>
    /\ UNCHANGED rxOthers

\* close() on the receiver __init__ returned: self._received_thread_running = False
RxClose ==
    /\ rx_init = "done"
    /\ rx_close = "idle"
    /\ received_thread_running' = FALSE
    /\ rx_close' = "join"
    /\ UNCHANGED <<rx_init, rx_thread, rx_queue, rx_read, rx_arrived>>
    /\ UNCHANGED rxOthers

\* self._received_thread.join() returns, and close() with it
RxJoin ==
    /\ rx_close = "join"
    /\ rx_thread = "exited"
    /\ rx_close' = "returned"
    /\ UNCHANGED <<received_thread_running, rx_init, rx_thread, rx_queue, rx_read,
                   rx_arrived>>
    /\ UNCHANGED rxOthers

RxNext ==
    \/ RxStartThread
    \/ RxSetRunning
    \/ \E s \in Sockets : RxArrive(s)
    \/ RxWhile
    \/ RxSelect
    \/ RxFor
    \/ RxClose
    \/ RxJoin

SpecRx == Init /\ [][RxNext]_vars

\* the steps the scheduler keeps taking: the constructor, the receive thread
\* and a caller inside close() go on while they can; datagrams and the call of
\* close() are up to the environment
RxFairness ==
    /\ WF_vars(RxStartThread)
    /\ WF_vars(RxSetRunning)
    /\ WF_vars(RxWhile)
    /\ WF_vars(RxSelect)
    /\ WF_vars(RxFor)
    /\ WF_vars(RxJoin)

SpecRxFair == SpecRx /\ RxFairness

\* ------------------------------------------------------------ claims

\* C1: once close() of the RtpConnection of rtp.py has returned, neither the
\* registered RTP callback nor the registered RTCP callback is invoked again,
\* whatever the interleaving of the receive thread with close() and whatever
\* datagrams arrive.
C1_NoCallbackAfterClose == [][close_returned => invoked' = invoked]_vars

\* C1 witness: close() has returned and the receive thread has ended, after
\* every datagram was sent and the RTCP callback was invoked for one of them.
C1_Witness ==
    /\ close_returned
    /\ invoked["rtcp"] >= 1
    /\ arrived = MaxDatagrams
    /\ rpc = "exited"

\* ---- helpers of the claims about main()
\* tuner t has an entry in a list of main()
InList(list, t) == \E n \in 1..Len(list) : list[n] = t

\* main() never entered one of its except blocks: every close so far was made
\* by signal_handler
OnlySignalCloses ==
    stack[1].pc \in {"new_client", "setup_acquire", "setup_perform", "play_new",
                     "play_acquire", "play_perform", "register", "display_start",
                     "blocked", "traceback"}

\* C2: when the orchestrator handles a termination signal, every resource it
\* has created (stream, receiver, RTSP client) is closed exactly once: when a
\* run of signal_handler returns, each stream main() obtained has had one
\* teardown(), each receiver that was bound one close(), each RtspClient one
\* close(); also for a second signal and for a signal during startup or during
\* the close_everything of the startup error path.
C2_ClosedExactlyOnce ==
    [][handled' > handled =>
          /\ \A t \in Tuners : InList(rtsp_streams', t) => teardowns'[t] = 1
          /\ \A t \in Tuners : recv'[t] # "none" => recv_closes'[t] = 1
          /\ \A t \in Tuners : InList(rtsp_clients', t) => client_closes'[t] = 1]_vars

C4_StartupFailureTearsDown ==
    stack[1].pc \in {"exited", "traceback"} =>
        /\ exit_code = "exit(1)"
        /\ \A t \in Tuners :
              /\ InList(rtsp_streams, t) => teardowns[t] >= 1
              /\ recv[t] # "open"
              /\ InList(rtsp_clients, t) => client_closes[t] >= 1

\* C5: at most one RTSP request is in flight on an RtspConnection at any time:
\* a keep-alive OPTIONS, a PLAY and a TEARDOWN issued concurrently on one
\* connection never overlap inside perform_rtsp_request.
C5_OneRequestInFlight == \A c \in Tuners : in_flight[c] <= 1

\* C5 witness: on one connection a PLAY is in flight in main(), the TEARDOWN of
\* signal_handler waits for the lock, and the keep-alive thread has an OPTIONS
\* to send.
C5_Witness ==
    \E c \in Tuners :
        /\ in_flight[c] = 1
        /\ Len(stack) = 2
        /\ stack[1].pc = "play_perform" /\ stack[1].idx = c
        /\ Top.pc = "ce_stream_acquire" /\ rtsp_streams[Top.k] = c
        /\ kpc[c] = "sleep"

\* C6: no state is shared between RtspConnection instances: close() on one
\* tuner's connection leaves every other tuner's connection open and usable,
\* so a connection whose close() was never called has an open transport handle.
C6_CloseLeavesOthersOpen ==
    \A c \in Tuners :
        (InList(rtsp_clients, c) /\ conn_closes[c] = 0) => ~curl_closed[curl_of(c)]

\* C7: the keep-alive task is started only after a SETUP that succeeded and has
\* stopped before the codec it uses is closed: no OPTIONS request is performed
\* on a transport handle that has already been closed.
C7_NoOptionsOnClosedHandle ==
    /\ \A c \in Tuners : kpc[c] # "unset" => InList(rtsp_streams, c)
    /\ ~options_on_closed

\* C8: play() returns a receiver only if the PLAY request succeeded, and on
\* every failed PLAY (status other than 200, or an exception of the request)
\* the receiver bound for it is closed.
C8_FailedPlayClosesReceiver ==
    \A t \in Tuners :
        /\ InList(rtp_connections, t) => play_result[t] = "ok"
        /\ play_result[t] \in {"none", "raised"} => recv[t] = "closed"

\* C9: RtspClient.close() completes without raising and closes the codec in
\* every state of the client, also when SETUP never succeeded and no keep-alive
\* thread was started.
C9_ClientCloseNeverRaises ==
    \A c \in Tuners :
        /\ client_close_result[c] # "raised"
        /\ client_close_result[c] = "returned" => conn_closes[c] >= 1

\* C10: RtspStream.teardown() is idempotent and safe on a FAILED session: a
\* call on a session that is CLOSED or FAILED raises no error (and leaves the
\* session state as it was).
C10_TeardownSafeWhenClosedOrFailed == teardown_raised = {}

\* ---- rtp.py RtpConnection, continued

\* C11: RtpConnection.close() is idempotent: once a close() has returned, a
\* further close() raises no error.
C11_CloseIdempotent == close_returned => ~close_raised

\* C12: close() closes the two UDP sockets only after it joined the receive
\* thread: no socket is closed while the receive thread has not exited.
C12_SocketsClosedAfterJoin == \A s \in Sockets : ~sock_open[s] => rpc = "exited"

\* C13: close() always eventually returns: a caller that entered close() gets
\* out of it, wherever the receive thread was and whether or not a datagram
\* ever arrives.
C13_CloseReturns == (cpc # "idle") ~> (cpc = "idle" /\ close_returned)

\* C13 witness: close() has returned and the receive thread has exited though
\* no datagram ever arrived.
C13_Witness == close_returned /\ rpc = "exited" /\ arrived = 0 /\ stop_pipe = 1

\* C14: an exception raised by a registered sink does not terminate the
\* receive loop: after a sink raised, and as long as close() has not been
\* called, the receive thread is still in its loop, where it hands every
\* datagram it receives to the sink.
C14_SinkExceptionKeepsLoop ==
    (closes = 0 /\ \E i \in 1..Len(sink_log) : sink_log[i] = "raised")
        => rpc # "exited"

\* C14 witness: before any close(), the sink raised on one datagram and was
\* then invoked for the next one.
C14_Witness == closes = 0 /\ sink_log = <<"raised", "ok">>

\* ---- rtsp.py keep-alive, continued

\* C15: once the owner has requested the keep-alive task to stop (close() set
\* _running to False), the task starts no further OPTIONS request: it does not
\* enter perform_rtsp_request again.
C15_NoOptionsAfterStop ==
    [][\A c \in Tuners :
          (~running[c] /\ kpc[c] # "perform") => kpc'[c] # "perform"]_vars

\* C16: the keep-alive waits max(1, session_timeout - 2) seconds before each
\* OPTIONS request, for every session timeout >= 1: the wait is never zero
\* or negative (a negative one makes the sleep raise).
C16_IntervalAtLeastOne ==
    /\ ka_pc # "raised"
    /\ \A i \in 1..Len(ka_gaps) :
          ka_gaps[i] = IF ka_timeout - 2 > 1 THEN ka_timeout - 2 ELSE 1

\* ---- rtsp.py setup_stream, continued

\* C17: a SETUP answered with a status other than 200 fails with an error:
\* setup_stream() does not return normally, so main() never holds the None of
\* a failed SETUP in rtsp_streams, and no keep-alive thread exists for it.
C17_SetupNon200Raises ==
    \A n \in 1..Len(rtsp_streams) : rtsp_streams[n] # None /\ kpc[n] # "unset"

\* ---- rtcp.py

\* the first APP packet among the packets of the datagram, as the parser is to
\* return it
FirstApp(ps) ==
    LET i == CHOOSE i \in 1..Len(ps) :
                 IsApp(ps[i]) /\ \A j \in 1..(i - 1) : ~IsApp(ps[j])
    IN  [kind |-> "APP", name |-> SES1, application_data |-> AppString(ps[i])]

\* C18: for every valid compound RTCP datagram that holds an APP packet,
\* get_first_rtcp_app_packet_from_rtcp_data returns the first APP packet,
\* whatever non-APP packets precede it and whatever packets follow it; it
\* returns none when the datagram holds no APP packet.
C18_ReturnsFirstApp ==
    rtcp_pc \in {"returned", "raised"} =>
        /\ rtcp_pc = "returned"
        /\ rtcp_result = IF \E i \in 1..Len(rtcp_packets) : IsApp(rtcp_packets[i])
                         THEN FirstApp(rtcp_packets)
                         ELSE NoPacket

\* C28: the RTCP walk terminates for every input buffer: each pass of the
\* loop either ends the walk (a packet, none, or an exception) or moves the
\* cursor strictly forward, to a place within the buffer, so no header is
\* read at an index already passed.
C28_WalkTerminates ==
    /\ [][rtcp_pc = "while" =>
             \/ rtcp_pc' \in {"returned", "raised"}
             \/ /\ rtcp_pc' = "while"
                /\ rtcp_index' > rtcp_index
                /\ rtcp_index' <= Len(rtcp_packet)]_vars
    /\ (rtcp_pc = "while") ~> (rtcp_pc \in {"returned", "raised"})

\* the walk has passed two packets of a buffer that holds a malformed piece
\* and goes on
C28_Witness ==
    /\ rtcp_pc = "while"
    /\ rtcp_index >= 12
    /\ \E i \in 1..Len(rtcp_packets) : rtcp_packets[i] \in Malformed

\* ---- satip.py

\* the constraints of the data model on a channel
ChannelConstraints(c) ==
    /\ c.frontend # <<>> => (c.frontend[1] >= 1 /\ c.frontend[1] <= 65535)
    /\ c.src >= 1 /\ c.src <= 255
    /\ c.frequency > 0
    /\ c.modulation_system \in {"dvbs", "dvbs2"}
    /\ c.modulation_type \in {"qpsk", "8psk"}
    /\ c.modulation_system = "dvbs" => c.modulation_type = "qpsk"
    /\ c.polarisation \in {"h", "v"}
    /\ c.fec \in {12, 23, 34, 56, 78, 89, 35, 45, 910}
    /\ c.rolloff \in {20, 25, 35}
    /\ \A i \in 1..Len(c.pids) : c.pids[i] >= 0 /\ c.pids[i] <= 8191

\* C19: constructing a SatIpChannel fails for every violation of the
\* constraints of the data model and succeeds for every value inside them.
C19_ValidationMatchesConstraints ==
    /\ channel_pc = "constructed" => ChannelConstraints(channel)
    /\ channel_pc = "raised" => ~ChannelConstraints(channel)

\* ---- main.py signal_handler, continued

\* runs of signal_handler that have not yet called display.close()
HandlersBeforeDisplayClose ==
    Cardinality({n \in 1..Len(stack) : stack[n].pc = "h_display"})

\* C20: on a termination signal the display is closed before any session is
\* torn down: when a run of signal_handler calls a teardown(), a receiver's
\* close() or a client's close(), display.close() has been called for every
\* signal whose handler got that far.
C20_DisplayClosedFirst ==
    [][(Top.ctx = "handler" /\ <<teardowns, recv_closes, client_closes>>'
                                  # <<teardowns, recv_closes, client_closes>>)
          => display_closes >= signals - HandlersBeforeDisplayClose]_vars

\* C20 witness: the handler of the one signal, delivered while the display is
\* running, has closed the display and torn the first stream down.
C20_Witness ==
    /\ Len(stack) = 2 /\ stack[1].pc = "blocked" /\ Top.ctx = "handler"
    /\ signals = 1 /\ display = "closed" /\ display_closes = 1
    /\ teardowns[1] = 1

\* ---- rtsp.py keep-alive timing, continued

\* C21 as stated: each iteration of the keep-alive loop first sends an OPTIONS
\* request and then waits: the first OPTIONS is sent when the task starts,
\* before any wait.
C21_OptionsBeforeWait == Len(ka_gaps) >= 1 => ka_gaps[1] = 0

\* C21 amended: each iteration first waits and then sends: every OPTIONS
\* request, the first included, is sent after a sleep of timeout - 2 seconds.
C21_WaitBeforeOptions ==
    \A i \in 1..Len(ka_gaps) : ka_gaps[i] = ka_timeout - 2

\* C21 witness: with a timeout of 4 seconds or more, two OPTIONS requests
\* were sent, each one after its wait.
C21_Witness == ka_timeout >= 4 /\ Len(ka_gaps) = 2 /\ ka_pc = "while"

\* ---- main.py show_signal_and_quality

\* C22: the RTCP sink registered for tuner i forwards its metrics to the
\* display with tuner index i: what the display shows for a tuner comes from
\* a datagram of that tuner's receiver, never from another tuner's.
C22_SinkUpdatesOwnTuner ==
    \A t \in Tuners : display_values[t].from \in {None, t}

\* ---- rtsp.py setup_stream, headers

\* C23: when a SETUP 200 answer is processed, the keep-alive timeout is the
\* integer of the Session header's timeout parameter, and 60 when that is zero
\* or when the header carries no timeout parameter; setup_stream() does not
\* fail in either case.
C23_TimeoutFallback ==
    parse_pc \in {"returned", "raised"} =>
        /\ parse_pc = "returned"
        /\ session_timeout =
               IF Len(session_header) = 2 /\ int(session_header[2].digits) # 0
               THEN int(session_header[2].digits)
               ELSE 60

\* ---- main.py close_everything, continued

\* C24: shutdown tolerates failures: when a TEARDOWN, a receiver's close() or
\* a client's close() raises, the close of every remaining resource is still
\* attempted and the error does not leave close_everything: whenever
\* close_everything is about to return, every stream, receiver and client in
\* its lists has had its close called.
C24_ShutdownToleratesFailures ==
    \A n \in 1..Len(stack) : stack[n].pc = "ce_return" =>
        /\ \A t \in Tuners : InList(rtsp_streams, t) => teardowns[t] >= 1
        /\ \A t \in Tuners : InList(rtp_connections, t) => recv_closes[t] >= 1
        /\ \A t \in Tuners : InList(rtsp_clients, t) => client_closes[t] >= 1

\* C24 witness: a second run of close_everything is about to return: the
\* TEARDOWN on the handle the first run closed raised, the second close() of
\* the receiver raised, and the client's close() was still called after them.
C24_Witness ==
    /\ Top.pc = "ce_return"
    /\ curl_closed[curl_of(1)]
    /\ teardowns[1] = 2 /\ recv_closes[1] = 2 /\ client_closes[1] = 2

\* ---- main.py main loop after a signal

\* C25: once a termination signal has been handled, the orchestrator starts
\* no further session: after a run of signal_handler has returned, no SETUP
\* succeeds (no keep-alive thread is started) and no receiver is bound.
C25_NoSessionAfterSignal ==
    [][handled >= 1 =>
          \A t \in Tuners : /\ kpc[t] = "unset" => kpc'[t] = "unset"
                            /\ recv[t] = "none" => recv'[t] = "none"]_vars

\* ---- rtsp.py RtpConnection

\* C26: the receiver play() creates keeps its receive loop running from
\* construction until close() is called: the thread does not exit before
\* close() is called, for every interleaving of __init__ with the thread.
C26_LoopRunsUntilClose == rx_thread = "exited" => rx_close # "idle"

\* C27: close() of the receiver play() returns always eventually returns,
\* also when no further datagram arrives after close() was called.
C27_CloseReturns == (rx_close = "join") ~> (rx_close = "returned")

====
